---- MODULE Spec2Model ----
(***************************************************************************)
(* Verification model of the node-replication state machines:             *)
(*   - CyclicBuffer  (src/nr/cyclicbuffer.rs)                              *)
(*   - UnboundedLog  (src/nr/unbounded_log.rs)                             *)
(* Every transition!{} of the two tokenized state machines is one action. *)
(* `remove', `have' and `require' are enabling conditions; `add',         *)
(* `update', `deposit' and `withdraw' are the assignments.                *)
(***************************************************************************)
EXTENDS Integers, Sequences, FiniteSets, TLC

\* ------------------------------------------------------------------------
\* Bounds of the model
\* ------------------------------------------------------------------------

\* number of replicas (the `num_replicas' both machines are initialised with)
NumReplicas == 2

\* size of the cyclic buffer (the `buffer_size' of initialize)
BufferSize == 4

\* logical indices of the cyclic buffer are explored below this cap
MaxIdx == 6

\* number of distinct values of StoredType
NumVals == 1

NodeIds == 0 .. (NumReplicas - 1)

StoredVals == 0 .. (NumVals - 1)

LogIdxs == 0 .. (MaxIdx - 1)

\* marks a logical index that no finish_advance_tail has reserved yet (no node id)
NoNode == NumReplicas

VARIABLES
    \* ---- CyclicBuffer fields (cyclicbuffer.rs 80-125)
    head,            \* logical index at which the log starts
    tail,            \* logical index at which the log ends
    local_heads,     \* NodeId -> LogIdx
    contents,        \* logical index -> StoredType (partial map)
    alive_bits,      \* physical index -> BOOLEAN
    combiner_state,  \* NodeId -> CombinerState
    \* ---- history of the cyclic buffer
    reserved_by,     \* logical index -> node whose finish_advance_tail reserved it
    written          \* logical indices append_flip_bit has deposited into

cb_vars == <<head, tail, local_heads, contents, alive_bits, combiner_state,
             reserved_by, written>>

\* ------------------------------------------------------------------------
\* CyclicBuffer: helper functions (cyclicbuffer.rs 626-654)
\* ------------------------------------------------------------------------

min(x, y) == IF x < y THEN x ELSE y

RECURSIVE map_min_value(_, _)
map_min_value(m, idx) ==
    IF idx = 0 THEN m[0]
    ELSE min(map_min_value(m, idx - 1), m[idx - 1])

logical_to_alive_bit_alive_when(logical, buffer_size) ==
    ((logical \div buffer_size) % 2) = 0

entry_is_alive(bits, logical, buffer_size) ==
    bits[logical % buffer_size] = logical_to_alive_bit_alive_when(logical, buffer_size)

\* ------------------------------------------------------------------------
\* CyclicBuffer: combiner states (cyclicbuffer.rs 49-76)
\* ------------------------------------------------------------------------

Idle == [kind |-> "Idle"]

Starting(start) == [kind |-> "Starting", start |-> start]

Range(start, end, cur) == [kind |-> "Range", start |-> start, end |-> end, cur |-> cur]

Guard(start, end, cur, val) ==
    [kind |-> "Guard", start |-> start, end |-> end, cur |-> cur, val |-> val]

AdvancingHead(idx, min_head) == [kind |-> "AdvancingHead", idx |-> idx, min_head |-> min_head]

AdvancingTail(observed_head) == [kind |-> "AdvancingTail", observed_head |-> observed_head]

Appending(cur_idx, tl) == [kind |-> "Appending", cur_idx |-> cur_idx, tail |-> tl]

\* storage_map operations on `contents'
MapInsert(m, k, v) == [i \in (DOMAIN m) \cup {k} |-> IF i = k THEN v ELSE m[i]]

MapRemoveKeys(m, ks) == [i \in (DOMAIN m) \ ks |-> m[i]]

\* `birds_eye let val = pre.contents.index(k)': the value stored at k; the index
\* of a key that is not in the map is an arbitrary value of the type
ContentsIndex(m, k) == IF k \in DOMAIN m THEN {m[k]} ELSE StoredVals

\* ------------------------------------------------------------------------
\* CyclicBuffer: initialisation (cyclicbuffer.rs 297-311)
\* ------------------------------------------------------------------------

cb_initialize ==
    /\ head = 0
    /\ tail = 0
    /\ local_heads = [i \in NodeIds |-> 0]
    /\ contents \in [(0 - BufferSize) .. -1 -> {0}]
    /\ alive_bits = [i \in 0 .. (BufferSize - 1) |-> FALSE]
    /\ combiner_state = [i \in NodeIds |-> Idle]
    /\ reserved_by = [i \in LogIdxs |-> NoNode]
    /\ written = {}

\* ------------------------------------------------------------------------
\* CyclicBuffer: reader transitions (cyclicbuffer.rs 317-413)
\* ------------------------------------------------------------------------

reader_do_start(node_id) ==
    /\ combiner_state[node_id] = Idle
    /\ combiner_state' = [combiner_state EXCEPT ![node_id] = Starting(local_heads[node_id])]
    /\ UNCHANGED <<head, tail, local_heads, contents, alive_bits, reserved_by, written>>

reader_do_enter(node_id) ==
    /\ combiner_state[node_id].kind = "Starting"
    /\ LET start == combiner_state[node_id].start IN
       combiner_state' = [combiner_state EXCEPT ![node_id] = Range(start, tail, start)]
    /\ UNCHANGED <<head, tail, local_heads, contents, alive_bits, reserved_by, written>>

reader_do_guard(node_id) ==
    /\ combiner_state[node_id].kind = "Range"
    /\ LET c == combiner_state[node_id] IN
       /\ c.cur < MaxIdx
       /\ alive_bits[c.cur % BufferSize] = ((c.cur \div BufferSize) % 2 = 0)
       /\ \E val \in ContentsIndex(contents, c.cur) :
            combiner_state' = [combiner_state EXCEPT ![node_id] = Guard(c.start, c.end, c.cur, val)]
    /\ UNCHANGED <<head, tail, local_heads, contents, alive_bits, reserved_by, written>>

\* a slip: the cursor is left on the entry just read
Unguarded_same_entry(c) == Range(c.start, c.end, c.cur)

\* the reader state reader_do_unguard enters (line 386)
Unguarded(c) == Range(c.start, c.end, c.cur + 1)

reader_do_unguard(node_id) ==
    /\ combiner_state[node_id].kind = "Guard"
    /\ LET c == combiner_state[node_id] IN
       combiner_state' = [combiner_state EXCEPT ![node_id] = Unguarded(c)]
    /\ UNCHANGED <<head, tail, local_heads, contents, alive_bits, reserved_by, written>>

\* a slip: the lagging replicas are pulled along with the reader
PublishedHeads_all(node_id, end) ==
    [n \in NodeIds |-> IF n = node_id \/ local_heads[n] < end THEN end ELSE local_heads[n]]

\* the local heads after reader_do_finish (lines 403-404)
PublishedHeads(node_id, end) == [local_heads EXCEPT ![node_id] = end]

reader_do_finish(node_id) ==
    /\ combiner_state[node_id].kind = "Range"
    /\ combiner_state' = [combiner_state EXCEPT ![node_id] = Idle]
    /\ local_heads' = PublishedHeads(node_id, combiner_state[node_id].end)
    /\ UNCHANGED <<head, tail, contents, alive_bits, reserved_by, written>>

reader_do_abort(node_id) ==
    /\ combiner_state[node_id].kind \in {"Starting", "Range"}
    /\ combiner_state' = [combiner_state EXCEPT ![node_id] = Idle]
    /\ UNCHANGED <<head, tail, local_heads, contents, alive_bits, reserved_by, written>>

\* ------------------------------------------------------------------------
\* CyclicBuffer: advancing the head (cyclicbuffer.rs 421-464)
\* ------------------------------------------------------------------------

\* the local head the scan of init_advance_head starts from (line 423)
ScanStart(node_id) == local_heads[node_id]

init_advance_head(node_id) ==
    /\ combiner_state[node_id] = Idle
    /\ combiner_state' = [combiner_state EXCEPT ![node_id] = AdvancingHead(1, ScanStart(node_id))]
    /\ UNCHANGED <<head, tail, local_heads, contents, alive_bits, reserved_by, written>>

step_advance_head(node_id) ==
    /\ combiner_state[node_id].kind = "AdvancingHead"
    /\ LET c == combiner_state[node_id] IN
       /\ c.idx < NumReplicas
       /\ LET new_min == min(c.min_head, local_heads[c.idx]) IN
          combiner_state' = [combiner_state EXCEPT ![node_id] = AdvancingHead(c.idx + 1, new_min)]
    /\ UNCHANGED <<head, tail, local_heads, contents, alive_bits, reserved_by, written>>

abandon_advance_head(node_id) ==
    /\ combiner_state[node_id].kind = "AdvancingHead"
    /\ combiner_state' = [combiner_state EXCEPT ![node_id] = Idle]
    /\ UNCHANGED <<head, tail, local_heads, contents, alive_bits, reserved_by, written>>

\* a slip: the head is only ever raised
InstalledHead_raise_only(c) == IF c.min_head > head THEN c.min_head ELSE head

\* the head finish_advance_head installs (line 461)
InstalledHead(c) == c.min_head

finish_advance_head(node_id) ==
    /\ combiner_state[node_id].kind = "AdvancingHead"
    /\ combiner_state[node_id].idx = NumReplicas
    /\ head' = InstalledHead(combiner_state[node_id])
    /\ combiner_state' = [combiner_state EXCEPT ![node_id] = Idle]
    /\ UNCHANGED <<tail, local_heads, contents, alive_bits, reserved_by, written>>

\* ------------------------------------------------------------------------
\* CyclicBuffer: advancing the tail and appending (cyclicbuffer.rs 468-566)
\* ------------------------------------------------------------------------

init_advance_tail(node_id) ==
    /\ combiner_state[node_id] = Idle
    /\ 0 \in DOMAIN local_heads
    /\ combiner_state' = [combiner_state EXCEPT ![node_id] = AdvancingTail(head)]
    /\ UNCHANGED <<head, tail, local_heads, contents, alive_bits, reserved_by, written>>

abandon_advance_tail(node_id) ==
    /\ combiner_state[node_id].kind = "AdvancingTail"
    /\ combiner_state' = [combiner_state EXCEPT ![node_id] = Idle]
    /\ UNCHANGED <<head, tail, local_heads, contents, alive_bits, reserved_by, written>>

\* a slip: the write range starts at the head instead of the tail read
ReservedRange_from_head(pre_tail, new_tail) == Appending(head, new_tail)

\* the Appending state finish_advance_tail enters (line 496)
ReservedRange(pre_tail, new_tail) == Appending(pre_tail, new_tail)

\* the logical indices finish_advance_tail withdraws from contents (lines 500-505)
Withdrawn(pre_tail, new_tail) ==
    {i \in DOMAIN contents : pre_tail - BufferSize <= i /\ i < new_tail - BufferSize}

\* a slip: the new tail is checked against the buffer size only
TailInRange_no_lower_bound(new_tail, observed_head) == new_tail <= observed_head + BufferSize

\* the new tail finish_advance_tail accepts (line 492)
TailInRange(new_tail, observed_head) ==
    tail <= new_tail /\ new_tail <= observed_head + BufferSize

finish_advance_tail(node_id, new_tail) ==
    /\ combiner_state[node_id].kind = "AdvancingTail"
    /\ TailInRange(new_tail, combiner_state[node_id].observed_head)
    /\ combiner_state' = [combiner_state EXCEPT ![node_id] = ReservedRange(tail, new_tail)]
    /\ tail' = new_tail
    /\ contents' = MapRemoveKeys(contents, Withdrawn(tail, new_tail))
    /\ reserved_by' = [i \in LogIdxs |->
                          IF tail <= i /\ i < new_tail THEN node_id ELSE reserved_by[i]]
    /\ UNCHANGED <<head, local_heads, alive_bits, written>>

append_flip_bit(node_id, deposited) ==
    /\ combiner_state[node_id].kind = "Appending"
    /\ LET c == combiner_state[node_id] IN
       /\ c.cur_idx < MaxIdx
       /\ combiner_state' = [combiner_state EXCEPT ![node_id] = Appending(c.cur_idx + 1, c.tail)]
       /\ alive_bits' = [alive_bits EXCEPT ![c.cur_idx % BufferSize] =
                            ((c.cur_idx \div BufferSize) % 2 = 0)]
       /\ contents' = MapInsert(contents, c.cur_idx, deposited)
       /\ written' = written \cup {c.cur_idx}
    /\ UNCHANGED <<head, tail, local_heads, reserved_by>>

finish_appending(node_id) ==
    /\ combiner_state[node_id].kind = "Appending"
    /\ combiner_state[node_id].cur_idx = combiner_state[node_id].tail
    /\ combiner_state' = [combiner_state EXCEPT ![node_id] = Idle]
    /\ UNCHANGED <<head, tail, local_heads, contents, alive_bits, reserved_by, written>>

\* ------------------------------------------------------------------------
\* UnboundedLog: bounds
\* ------------------------------------------------------------------------

\* the log is explored up to this many entries
MaxLog == 3

\* number of distinct update operations
NumUpdateOps == 2

\* number of request ids available to update requests
NumUpdateRids == 2

\* number of request ids available to read requests
NumReadRids == 1

\* the tail cap of the specification that records the head scans
MaxIdxHead == 2

\* the log cap of the specifications with fairness
MaxLogLive == 2

\* the log cap of the specification with reads
MaxLogReads == 2

\* number of distinct update operations in the specification with reads
NumUpdateOpsReads == 1

UpdateOps == 0 .. (NumUpdateOps - 1)

ReadonlyOps == {0}

UpdateOpsReads == 0 .. (NumUpdateOpsReads - 1)

UpdateRids == 0 .. (NumUpdateRids - 1)

ReadRids == 0 .. (NumReadRids - 1)

VARIABLES
    \* ---- UnboundedLog fields (unbounded_log.rs 270-298)
    log,                  \* LogIdx -> LogEntry (partial map)
    global_tail,
    replicas,             \* NodeId -> NRState
    local_versions,       \* NodeId -> LogIdx
    version_upper_bound,
    local_reads,          \* ReqId -> ReadonlyState (partial map)
    local_updates,        \* ReqId -> UpdateState (partial map)
    combiner              \* NodeId -> CombinerState

ul_vars == <<log, global_tail, replicas, local_versions, version_upper_bound,
             local_reads, local_updates, combiner>>

\* History variables for the read requests: what was true at the moment a read
\* took its snapshot (readonly_read_ctail).  The program does not read them.
VARIABLES
    snap_done,            \* read ReqId -> log indices of the updates Done at the snapshot
    snap_applied,         \* read ReqId -> log indices of the updates Applied at the snapshot
    last_snapshots        \* the horizons recorded by the two latest snapshots taken

rd_vars == <<snap_done, snap_applied, last_snapshots>>

\* History variables for the head of the cyclic buffer.  The program does not
\* read them.
VARIABLES
    overlapped,           \* NodeId -> another replica was in AdvancingHead during n's cycle
    last_install,         \* the latest finish_advance_head: the head before it, the
                          \* min_head of its scan, and whether the installing replica's
                          \* cycle overlapped another one
    guard_hist            \* the latest step if it was a reader_do_guard, or the
                          \* reader_do_unguard that followed one at once: the replica
                          \* and the fields of the cyclic buffer before the guard

sc_vars == <<overlapped, last_install>>

hd_vars == <<sc_vars, guard_hist>>

vars == <<cb_vars, ul_vars, rd_vars, hd_vars>>

\* ------------------------------------------------------------------------
\* The replicated data structure (types.rs, not part of the sources): a
\* deterministic object.  Its state is the history of the updates applied;
\* return values expose the state they were computed on.
\* ------------------------------------------------------------------------

NRState_init == <<>>

NRState_update(state, op) == [state |-> Append(state, op), ret |-> <<"u", state, op>>]

NRState_read(state, op) == <<"r", state, op>>

LogEntry(op, node_id) == [op |-> op, node_id |-> node_id]

\* ------------------------------------------------------------------------
\* UnboundedLog: request and combiner states (unbounded_log.rs 50-264)
\* ------------------------------------------------------------------------

RInit(op) == [kind |-> "Init", op |-> op]

RVersionUpperBound(op, v) == [kind |-> "VersionUpperBound", op |-> op, version_upper_bound |-> v]

RReadyToRead(op, node_id, v) ==
    [kind |-> "ReadyToRead", op |-> op, node_id |-> node_id, version_upper_bound |-> v]

RDone(op, ret, node_id, v) ==
    [kind |-> "Done", op |-> op, ret |-> ret, node_id |-> node_id, version_upper_bound |-> v]

UInit(op) == [kind |-> "Init", op |-> op]

UPlaced(op, idx) == [kind |-> "Placed", op |-> op, idx |-> idx]

UApplied(ret, idx) == [kind |-> "Applied", ret |-> ret, idx |-> idx]

UDone(ret, idx) == [kind |-> "Done", ret |-> ret, idx |-> idx]

Ready == [kind |-> "Ready"]

Placed(queued_ops) == [kind |-> "Placed", queued_ops |-> queued_ops]

LoadedLocalVersion(queued_ops, lversion) ==
    [kind |-> "LoadedLocalVersion", queued_ops |-> queued_ops, lversion |-> lversion]

Loop(queued_ops, lversion, idx, gtail) ==
    [kind |-> "Loop", queued_ops |-> queued_ops, lversion |-> lversion, idx |-> idx,
     global_tail |-> gtail]

UpdatedVersion(queued_ops, gtail) ==
    [kind |-> "UpdatedVersion", queued_ops |-> queued_ops, global_tail |-> gtail]

queued_ops(c) == IF c.kind = "Ready" THEN <<>> ELSE c.queued_ops

\* Seq::index (0-based); the index of a position outside the sequence is an
\* arbitrary value of the element type
SeqIndex(q, i) == IF 0 <= i /\ i < Len(q) THEN {q[i + 1]} ELSE UpdateRids

current_local_version(node_id) ==
    LET c == combiner[node_id] IN
    CASE c.kind = "Ready" -> local_versions[node_id]
      [] c.kind = "Placed" -> local_versions[node_id]
      [] c.kind = "LoadedLocalVersion" -> c.lversion
      [] c.kind = "Loop" -> c.lversion
      [] c.kind = "UpdatedVersion" -> c.global_tail

\* ------------------------------------------------------------------------
\* UnboundedLog: initialisation (unbounded_log.rs 527-539)
\* ------------------------------------------------------------------------

ul_initialize ==
    /\ log = <<>>
    /\ global_tail = 0
    /\ replicas = [n \in NodeIds |-> NRState_init]
    /\ local_versions = [n \in NodeIds |-> 0]
    /\ version_upper_bound = 0
    /\ local_reads = <<>>
    /\ local_updates = <<>>
    /\ combiner = [n \in NodeIds |-> Ready]

\* ------------------------------------------------------------------------
\* UnboundedLog: readonly transitions (unbounded_log.rs 545-598)
\* ------------------------------------------------------------------------

readonly_start(op) ==
    /\ \E rid \in ReadRids \ DOMAIN local_reads :
          local_reads' = MapInsert(local_reads, rid, RInit(op))
    /\ UNCHANGED <<log, global_tail, replicas, local_versions, version_upper_bound,
                   local_updates, combiner>>

\* a slip: the horizon is a replica's local version, not the shared bound
ReadSnapshot_local_version == local_versions[0]

\* the horizon a read records (line 562)
ReadSnapshot == version_upper_bound

readonly_read_ctail(rid) ==
    /\ rid \in DOMAIN local_reads
    /\ local_reads[rid].kind = "Init"
    /\ local_reads' = [local_reads EXCEPT ![rid] =
                          RVersionUpperBound(local_reads[rid].op, ReadSnapshot)]
    /\ UNCHANGED <<log, global_tail, replicas, local_versions, version_upper_bound,
                   local_updates, combiner>>

\* a slip: the shared bound is compared instead of the replica's local version
ReplicaReached_shared_bound(node_id, v) == version_upper_bound >= v

\* a slip: a replica one entry behind the horizon is accepted
ReplicaReached_one_behind(node_id, v) == local_versions[node_id] + 1 >= v

\* the replica has applied the log up to the read's horizon (lines 572-574)
ReplicaReached(node_id, v) == local_versions[node_id] >= v

readonly_ready_to_read(rid, node_id) ==
    /\ rid \in DOMAIN local_reads
    /\ local_reads[rid].kind = "VersionUpperBound"
    /\ node_id \in DOMAIN local_versions
    /\ ReplicaReached(node_id, local_reads[rid].version_upper_bound)
    /\ local_reads' = [local_reads EXCEPT ![rid] =
                          RReadyToRead(local_reads[rid].op, node_id,
                                       local_reads[rid].version_upper_bound)]
    /\ UNCHANGED <<log, global_tail, replicas, local_versions, version_upper_bound,
                   local_updates, combiner>>

\* a slip: the read only stays out of the replay loop itself
CombinerIdle_not_looping(node_id) == combiner[node_id].kind # "Loop"

\* the combiner of the replica is not busy (line 584)
CombinerIdle(node_id) == combiner[node_id] = Ready

readonly_apply(rid) ==
    /\ rid \in DOMAIN local_reads
    /\ local_reads[rid].kind = "ReadyToRead"
    /\ LET r == local_reads[rid] IN
       /\ CombinerIdle(r.node_id)
       /\ LET ret == NRState_read(replicas[r.node_id], r.op) IN
          local_reads' = [local_reads EXCEPT ![rid] =
                             RDone(r.op, ret, r.node_id, r.version_upper_bound)]
    /\ UNCHANGED <<log, global_tail, replicas, local_versions, version_upper_bound,
                   local_updates, combiner>>

readonly_finish(rid) ==
    /\ rid \in DOMAIN local_reads
    /\ local_reads[rid].kind = "Done"
    /\ local_reads' = MapRemoveKeys(local_reads, {rid})
    /\ UNCHANGED <<log, global_tail, replicas, local_versions, version_upper_bound,
                   local_updates, combiner>>

\* ------------------------------------------------------------------------
\* UnboundedLog: update transitions (unbounded_log.rs 604-693)
\* ------------------------------------------------------------------------

update_start(op) ==
    /\ \E rid \in UpdateRids \ DOMAIN local_updates :
          local_updates' = MapInsert(local_updates, rid, UInit(op))
    /\ UNCHANGED <<log, global_tail, replicas, local_versions, version_upper_bound,
                   local_reads, combiner>>

\* an off-by-one slip: the index recorded is the tail after the append
PlacedAt_post_tail(op, pre_tail) == UPlaced(op, pre_tail + 1)

\* the update state update_place_ops_in_log_one records (line 672)
PlacedAt(op, pre_tail) == UPlaced(op, pre_tail)

\* a slip: the entry is written over the last entry of the log
AppendedLog_over_last(op, node_id) ==
    MapInsert(log, IF global_tail > 0 THEN global_tail - 1 ELSE 0, LogEntry(op, node_id))

\* the log after update_place_ops_in_log_one (line 671)
AppendedLog(op, node_id) == MapInsert(log, global_tail, LogEntry(op, node_id))

update_place_ops_in_log_one(node_id, rid) ==
    /\ combiner[node_id].kind = "Placed"
    /\ rid \in DOMAIN local_updates
    /\ local_updates[rid].kind = "Init"
    /\ global_tail < MaxLog
    /\ LET op == local_updates[rid].op IN
       /\ global_tail' = global_tail + 1
       /\ log' = AppendedLog(op, node_id)
       /\ local_updates' = [local_updates EXCEPT ![rid] = PlacedAt(op, global_tail)]
       /\ combiner' = [combiner EXCEPT ![node_id] =
                          Placed(Append(combiner[node_id].queued_ops, rid))]
    /\ UNCHANGED <<replicas, local_versions, version_upper_bound, local_reads>>

\* a slip: an update is reported done as soon as its entry is in the log
DoneHorizon_tail == global_tail

\* a slip: the comparison with the bound is not strict
DoneHorizon_inclusive == version_upper_bound + 1

\* the bound an applied update must be below to be reported done (line 682)
DoneHorizon == version_upper_bound

update_done(rid) ==
    /\ rid \in DOMAIN local_updates
    /\ local_updates[rid].kind = "Applied"
    /\ DoneHorizon > local_updates[rid].idx
    /\ local_updates' = [local_updates EXCEPT ![rid] =
                            UDone(local_updates[rid].ret, local_updates[rid].idx)]
    /\ UNCHANGED <<log, global_tail, replicas, local_versions, version_upper_bound,
                   local_reads, combiner>>

\* a slip: a request is retired as soon as it has been applied
Retirable_applied(u) == u.kind \in {"Applied", "Done"}

\* the update state update_finish removes (line 691)
Retirable(u) == u.kind = "Done"

update_finish(rid) ==
    /\ rid \in DOMAIN local_updates
    /\ Retirable(local_updates[rid])
    /\ local_updates' = MapRemoveKeys(local_updates, {rid})
    /\ UNCHANGED <<log, global_tail, replicas, local_versions, version_upper_bound,
                   local_reads, combiner>>

\* ------------------------------------------------------------------------
\* UnboundedLog: combiner transitions (unbounded_log.rs 701-830)
\* ------------------------------------------------------------------------

exec_trivial_start(node_id) ==
    /\ combiner[node_id] = Ready
    /\ combiner' = [combiner EXCEPT ![node_id] = Placed(<<>>)]
    /\ UNCHANGED <<log, global_tail, replicas, local_versions, version_upper_bound,
                   local_reads, local_updates>>

exec_load_local_version(node_id) ==
    /\ combiner[node_id].kind = "Placed"
    /\ combiner' = [combiner EXCEPT ![node_id] =
                       LoadedLocalVersion(combiner[node_id].queued_ops,
                                          local_versions[node_id])]
    /\ UNCHANGED <<log, global_tail, replicas, local_versions, version_upper_bound,
                   local_reads, local_updates>>

\* a slip: the replay restarts from the beginning of the log
LoopStart_from_zero(c) == Loop(c.queued_ops, 0, 0, global_tail)

\* a slip: the local version is taken for the global tail
LoopStart_local_tail(c) == Loop(c.queued_ops, c.lversion, 0, c.lversion)

\* the Loop state exec_load_global_head enters (line 726)
LoopStart(c) == Loop(c.queued_ops, c.lversion, 0, global_tail)

exec_load_global_head(node_id) ==
    /\ combiner[node_id].kind = "LoadedLocalVersion"
    /\ combiner' = [combiner EXCEPT ![node_id] = LoopStart(combiner[node_id])]
    /\ UNCHANGED <<log, global_tail, replicas, local_versions, version_upper_bound,
                   local_reads, local_updates>>

\* a slip: the queue cursor is not advanced past the request just applied
LoopAfterLocal_keep_idx(c) == Loop(c.queued_ops, c.lversion + 1, c.idx, c.global_tail)

\* the Loop state after a local entry has been dispatched (line 763)
LoopAfterLocal(c) == Loop(c.queued_ops, c.lversion + 1, c.idx + 1, c.global_tail)

\* a slip: a remote entry advances the queue cursor as a local one does
LoopAfterRemote_bump_idx(c) == Loop(c.queued_ops, c.lversion + 1, c.idx + 1, c.global_tail)

\* the Loop state after a remote entry has been dispatched (line 781)
LoopAfterRemote(c) == Loop(c.queued_ops, c.lversion + 1, c.idx, c.global_tail)

\* a slip: the queue cursor is recorded instead of the log index applied
AppliedAt_queue_cursor(ret, c) == UApplied(ret, c.idx)

\* the update state exec_dispatch_local records (line 760)
AppliedAt(ret, c) == UApplied(ret, c.lversion)

exec_dispatch_local(node_id) ==
    /\ combiner[node_id].kind = "Loop"
    /\ LET c == combiner[node_id] IN
       /\ \E rid \in SeqIndex(c.queued_ops, c.idx) :
          /\ rid \in DOMAIN local_updates
          /\ c.lversion \in DOMAIN log
          /\ c.lversion < c.global_tail
          /\ log[c.lversion].node_id = node_id
          /\ LET res == NRState_update(replicas[node_id], log[c.lversion].op) IN
             /\ local_updates' = [local_updates EXCEPT ![rid] = AppliedAt(res.ret, c)]
             /\ replicas' = [replicas EXCEPT ![node_id] = res.state]
             /\ combiner' = [combiner EXCEPT ![node_id] = LoopAfterLocal(c)]
    /\ UNCHANGED <<log, global_tail, local_versions, version_upper_bound, local_reads>>

exec_dispatch_remote(node_id) ==
    /\ combiner[node_id].kind = "Loop"
    /\ LET c == combiner[node_id] IN
       /\ c.lversion \in DOMAIN log
       /\ c.lversion < c.global_tail
       /\ log[c.lversion].node_id # node_id
       /\ LET res == NRState_update(replicas[node_id], log[c.lversion].op) IN
          /\ replicas' = [replicas EXCEPT ![node_id] = res.state]
          /\ combiner' = [combiner EXCEPT ![node_id] = LoopAfterRemote(c)]
    /\ UNCHANGED <<log, global_tail, local_versions, version_upper_bound, local_reads,
                   local_updates>>

\* a slip: the bound is overwritten with the snapshot, not raised to it
RaisedBound_overwrite(c) == c.global_tail

\* a slip: the bound is raised to the shared tail, not to the snapshot applied
RaisedBound_shared_tail(c) ==
    IF version_upper_bound >= global_tail THEN version_upper_bound ELSE global_tail

\* a slip: the bound is raised one past the snapshot applied
RaisedBound_past_snapshot(c) ==
    IF version_upper_bound >= c.global_tail + 1 THEN version_upper_bound ELSE c.global_tail + 1

\* a slip: the bound is left as it is
RaisedBound_unchanged(c) == version_upper_bound

\* the new version upper bound (lines 809-813)
RaisedBound(c) ==
    IF version_upper_bound >= c.global_tail THEN version_upper_bound ELSE c.global_tail

exec_update_version_upper_bound(node_id) ==
    /\ combiner[node_id].kind = "Loop"
    /\ LET c == combiner[node_id] IN
       /\ c.lversion = c.global_tail
       /\ version_upper_bound' = RaisedBound(c)
       /\ combiner' = [combiner EXCEPT ![node_id] = UpdatedVersion(c.queued_ops, c.global_tail)]
    /\ UNCHANGED <<log, global_tail, replicas, local_versions, local_reads, local_updates>>

\* a slip: the shared global_tail is published instead of the snapshot applied
FinishVersion_shared_tail(c) == global_tail

\* the local version exec_finish publishes (line 827)
FinishVersion(c) == c.global_tail

exec_finish(node_id) ==
    /\ combiner[node_id].kind = "UpdatedVersion"
    /\ local_versions' = [local_versions EXCEPT ![node_id] = FinishVersion(combiner[node_id])]
    /\ combiner' = [combiner EXCEPT ![node_id] = Ready]
    /\ UNCHANGED <<log, global_tail, replicas, version_upper_bound, local_reads, local_updates>>

\* ------------------------------------------------------------------------
\* Specifications: one per state machine
\* ------------------------------------------------------------------------

rd_initialize ==
    /\ snap_done = [rid \in ReadRids |-> {}]
    /\ snap_applied = [rid \in ReadRids |-> {}]
    /\ last_snapshots = [prev |-> 0, cur |-> 0]

\* the fields of the cyclic buffer
CbFields == <<head, tail, local_heads, contents, alive_bits, combiner_state>>

NoGuard == [node |-> NoNode, before |-> <<>>, done |-> FALSE]

hd_initialize ==
    /\ overlapped = [n \in NodeIds |-> FALSE]
    /\ last_install = [from |-> 0, to |-> 0, raced |-> FALSE]
    /\ guard_hist = NoGuard

Init == cb_initialize /\ ul_initialize /\ rd_initialize /\ hd_initialize

\* Spec: the cyclic buffer runs; the unbounded log stays in its initial state
Next ==
    \/ \E n \in NodeIds : reader_do_start(n) /\ UNCHANGED <<ul_vars, rd_vars, hd_vars>>
    \/ \E n \in NodeIds : reader_do_enter(n) /\ UNCHANGED <<ul_vars, rd_vars, hd_vars>>
    \/ \E n \in NodeIds : reader_do_guard(n) /\ UNCHANGED <<ul_vars, rd_vars, hd_vars>>
    \/ \E n \in NodeIds : reader_do_unguard(n) /\ UNCHANGED <<ul_vars, rd_vars, hd_vars>>
    \/ \E n \in NodeIds : reader_do_finish(n) /\ UNCHANGED <<ul_vars, rd_vars, hd_vars>>
    \/ \E n \in NodeIds : reader_do_abort(n) /\ UNCHANGED <<ul_vars, rd_vars, hd_vars>>
    \/ \E n \in NodeIds : init_advance_head(n) /\ UNCHANGED <<ul_vars, rd_vars, hd_vars>>
    \/ \E n \in NodeIds : step_advance_head(n) /\ UNCHANGED <<ul_vars, rd_vars, hd_vars>>
    \/ \E n \in NodeIds : abandon_advance_head(n) /\ UNCHANGED <<ul_vars, rd_vars, hd_vars>>
    \/ \E n \in NodeIds : finish_advance_head(n) /\ UNCHANGED <<ul_vars, rd_vars, hd_vars>>
    \/ \E n \in NodeIds : init_advance_tail(n) /\ UNCHANGED <<ul_vars, rd_vars, hd_vars>>
    \/ \E n \in NodeIds : abandon_advance_tail(n) /\ UNCHANGED <<ul_vars, rd_vars, hd_vars>>
    \/ \E n \in NodeIds, new_tail \in 0 .. MaxIdx :
          finish_advance_tail(n, new_tail) /\ UNCHANGED <<ul_vars, rd_vars, hd_vars>>
    \/ \E n \in NodeIds, deposited \in StoredVals :
          append_flip_bit(n, deposited) /\ UNCHANGED <<ul_vars, rd_vars, hd_vars>>
    \/ \E n \in NodeIds : finish_appending(n) /\ UNCHANGED <<ul_vars, rd_vars, hd_vars>>

Spec == Init /\ [][Next]_vars

\* SpecUL: the update and combiner transitions of the unbounded log run; the
\* cyclic buffer stays in its initial state.  The readonly transitions write
\* local_reads only and are left out of this specification.
NextUL ==
    \/ \E op \in UpdateOps : update_start(op) /\ UNCHANGED <<cb_vars, rd_vars, hd_vars>>
    \/ \E n \in NodeIds, rid \in UpdateRids :
          update_place_ops_in_log_one(n, rid) /\ UNCHANGED <<cb_vars, rd_vars, hd_vars>>
    \/ \E rid \in UpdateRids : update_done(rid) /\ UNCHANGED <<cb_vars, rd_vars, hd_vars>>
    \/ \E rid \in UpdateRids : update_finish(rid) /\ UNCHANGED <<cb_vars, rd_vars, hd_vars>>
    \/ \E n \in NodeIds : exec_trivial_start(n) /\ UNCHANGED <<cb_vars, rd_vars, hd_vars>>
    \/ \E n \in NodeIds : exec_load_local_version(n) /\ UNCHANGED <<cb_vars, rd_vars, hd_vars>>
    \/ \E n \in NodeIds : exec_load_global_head(n) /\ UNCHANGED <<cb_vars, rd_vars, hd_vars>>
    \/ \E n \in NodeIds : exec_dispatch_local(n) /\ UNCHANGED <<cb_vars, rd_vars, hd_vars>>
    \/ \E n \in NodeIds : exec_dispatch_remote(n) /\ UNCHANGED <<cb_vars, rd_vars, hd_vars>>
    \/ \E n \in NodeIds : exec_update_version_upper_bound(n) /\ UNCHANGED <<cb_vars, rd_vars, hd_vars>>
    \/ \E n \in NodeIds : exec_finish(n) /\ UNCHANGED <<cb_vars, rd_vars, hd_vars>>

SpecUL == Init /\ [][NextUL]_vars

\* SpecEither: one of the two state machines runs, the other one stays in its
\* initial state.  The machines share no field.
NextEither ==
    \/ cb_initialize /\ NextUL
    \/ ul_initialize /\ rd_initialize /\ Next

SpecEither == Init /\ [][NextEither]_vars

\* history: the step is neither a reader_do_guard nor the reader_do_unguard
\* that follows one
ForgetGuard == guard_hist' = NoGuard

\* history: a replica guards an entry
RecordGuard(n) == guard_hist' = [node |-> n, before |-> CbFields, done |-> FALSE]

\* history: a replica releases its guard
RecordUnguard(n) ==
    guard_hist' = IF guard_hist.node = n /\ ~guard_hist.done
                  THEN [guard_hist EXCEPT !.done = TRUE]
                  ELSE NoGuard

\* history: a replica starts a scan of the local heads
RecordScanStart(n) ==
    /\ overlapped' = [m \in NodeIds |->
                         IF m = n
                         THEN \E o \in NodeIds \ {n} : combiner_state[o].kind = "AdvancingHead"
                         ELSE overlapped[m] \/ combiner_state[m].kind = "AdvancingHead"]
    /\ UNCHANGED last_install

\* history: a replica gives up its scan
ForgetScan(n) ==
    /\ overlapped' = [overlapped EXCEPT ![n] = FALSE]
    /\ UNCHANGED last_install

\* history: a replica installs the head
RecordInstall(n) ==
    /\ last_install' = [from |-> head, to |-> combiner_state[n].min_head,
                        raced |-> overlapped[n]]
    /\ overlapped' = [overlapped EXCEPT ![n] = FALSE]

\* SpecHead: the cyclic buffer runs with the tail capped at MaxIdxHead and the
\* history of the head scans recorded; the unbounded log stays in its initial
\* state.
NextHead ==
    \/ \E n \in NodeIds : reader_do_start(n) /\ ForgetGuard /\ UNCHANGED <<ul_vars, rd_vars, sc_vars>>
    \/ \E n \in NodeIds : reader_do_enter(n) /\ ForgetGuard /\ UNCHANGED <<ul_vars, rd_vars, sc_vars>>
    \/ \E n \in NodeIds : reader_do_guard(n) /\ RecordGuard(n) /\ UNCHANGED <<ul_vars, rd_vars, sc_vars>>
    \/ \E n \in NodeIds : reader_do_unguard(n) /\ RecordUnguard(n) /\ UNCHANGED <<ul_vars, rd_vars, sc_vars>>
    \/ \E n \in NodeIds : reader_do_finish(n) /\ ForgetGuard /\ UNCHANGED <<ul_vars, rd_vars, sc_vars>>
    \/ \E n \in NodeIds : reader_do_abort(n) /\ ForgetGuard /\ UNCHANGED <<ul_vars, rd_vars, sc_vars>>
    \/ \E n \in NodeIds :
          init_advance_head(n) /\ RecordScanStart(n) /\ ForgetGuard /\ UNCHANGED <<ul_vars, rd_vars>>
    \/ \E n \in NodeIds : step_advance_head(n) /\ ForgetGuard /\ UNCHANGED <<ul_vars, rd_vars, sc_vars>>
    \/ \E n \in NodeIds :
          abandon_advance_head(n) /\ ForgetScan(n) /\ ForgetGuard /\ UNCHANGED <<ul_vars, rd_vars>>
    \/ \E n \in NodeIds :
          finish_advance_head(n) /\ RecordInstall(n) /\ ForgetGuard /\ UNCHANGED <<ul_vars, rd_vars>>
    \/ \E n \in NodeIds : init_advance_tail(n) /\ ForgetGuard /\ UNCHANGED <<ul_vars, rd_vars, sc_vars>>
    \/ \E n \in NodeIds : abandon_advance_tail(n) /\ ForgetGuard /\ UNCHANGED <<ul_vars, rd_vars, sc_vars>>
    \/ \E n \in NodeIds, new_tail \in 0 .. MaxIdxHead :
          finish_advance_tail(n, new_tail) /\ ForgetGuard /\ UNCHANGED <<ul_vars, rd_vars, sc_vars>>
    \/ \E n \in NodeIds, deposited \in StoredVals :
          /\ combiner_state[n].kind = "Appending"
          /\ combiner_state[n].cur_idx < MaxIdxHead
          /\ append_flip_bit(n, deposited)
          /\ ForgetGuard /\ UNCHANGED <<ul_vars, rd_vars, sc_vars>>
    \/ \E n \in NodeIds : finish_appending(n) /\ ForgetGuard /\ UNCHANGED <<ul_vars, rd_vars, sc_vars>>

SpecHead == Init /\ [][NextHead]_vars

\* SpecLive: the update and combiner transitions of the unbounded log over a
\* log of at most MaxLogLive entries, every combiner transition of every
\* replica being weakly fair: a combiner that can take its next step is
\* eventually scheduled.
NextLive ==
    \/ \E op \in UpdateOps : update_start(op) /\ UNCHANGED <<cb_vars, rd_vars, hd_vars>>
    \/ \E n \in NodeIds, rid \in UpdateRids :
          /\ global_tail < MaxLogLive
          /\ update_place_ops_in_log_one(n, rid)
          /\ UNCHANGED <<cb_vars, rd_vars, hd_vars>>
    \/ \E rid \in UpdateRids : update_done(rid) /\ UNCHANGED <<cb_vars, rd_vars, hd_vars>>
    \/ \E rid \in UpdateRids : update_finish(rid) /\ UNCHANGED <<cb_vars, rd_vars, hd_vars>>
    \/ \E n \in NodeIds : exec_trivial_start(n) /\ UNCHANGED <<cb_vars, rd_vars, hd_vars>>
    \/ \E n \in NodeIds : exec_load_local_version(n) /\ UNCHANGED <<cb_vars, rd_vars, hd_vars>>
    \/ \E n \in NodeIds : exec_load_global_head(n) /\ UNCHANGED <<cb_vars, rd_vars, hd_vars>>
    \/ \E n \in NodeIds : exec_dispatch_local(n) /\ UNCHANGED <<cb_vars, rd_vars, hd_vars>>
    \/ \E n \in NodeIds : exec_dispatch_remote(n) /\ UNCHANGED <<cb_vars, rd_vars, hd_vars>>
    \/ \E n \in NodeIds :
          exec_update_version_upper_bound(n) /\ UNCHANGED <<cb_vars, rd_vars, hd_vars>>
    \/ \E n \in NodeIds : exec_finish(n) /\ UNCHANGED <<cb_vars, rd_vars, hd_vars>>

\* weak fairness of each combiner transition of replica n
CombinerFair(n) ==
    /\ WF_vars(exec_trivial_start(n) /\ UNCHANGED <<cb_vars, rd_vars, hd_vars>>)
    /\ WF_vars(exec_load_local_version(n) /\ UNCHANGED <<cb_vars, rd_vars, hd_vars>>)
    /\ WF_vars(exec_load_global_head(n) /\ UNCHANGED <<cb_vars, rd_vars, hd_vars>>)
    /\ WF_vars(exec_dispatch_local(n) /\ UNCHANGED <<cb_vars, rd_vars, hd_vars>>)
    /\ WF_vars(exec_dispatch_remote(n) /\ UNCHANGED <<cb_vars, rd_vars, hd_vars>>)
    /\ WF_vars(exec_update_version_upper_bound(n) /\ UNCHANGED <<cb_vars, rd_vars, hd_vars>>)
    /\ WF_vars(exec_finish(n) /\ UNCHANGED <<cb_vars, rd_vars, hd_vars>>)

SpecLive == Init /\ [][NextLive]_vars /\ \A n \in NodeIds : CombinerFair(n)

\* SpecLiveUpdate: as SpecLive, but only the combiner transitions of replica 0
\* and update_done are weakly fair; replica 1 may stop at any moment.
SpecLiveUpdate ==
    /\ Init /\ [][NextLive]_vars
    /\ CombinerFair(0)
    /\ \A rid \in UpdateRids : WF_vars(update_done(rid) /\ UNCHANGED <<cb_vars, rd_vars, hd_vars>>)

\* the log indices of the update requests in the given state
UpdateIdxs(kind) ==
    {local_updates[u].idx : u \in {x \in DOMAIN local_updates : local_updates[x].kind = kind}}

\* history: a read takes its snapshot
RecordSnapshot(rid) ==
    /\ snap_done' = [snap_done EXCEPT ![rid] = UpdateIdxs("Done")]
    /\ snap_applied' = [snap_applied EXCEPT ![rid] = UpdateIdxs("Applied")]
    /\ last_snapshots' = [prev |-> last_snapshots.cur, cur |-> ReadSnapshot]

\* history: a read leaves the system
ForgetSnapshot(rid) ==
    /\ snap_done' = [snap_done EXCEPT ![rid] = {}]
    /\ snap_applied' = [snap_applied EXCEPT ![rid] = {}]
    /\ UNCHANGED last_snapshots

\* SpecRead: all transitions of the unbounded log run, reads included, over a
\* log of at most MaxLogReads entries and NumUpdateOpsReads update operations; the cyclic buffer stays in its initial
\* state.
NextRead ==
    \/ \E op \in ReadonlyOps : readonly_start(op) /\ UNCHANGED <<cb_vars, rd_vars, hd_vars>>
    \/ \E rid \in ReadRids :
          readonly_read_ctail(rid) /\ RecordSnapshot(rid) /\ UNCHANGED <<cb_vars, hd_vars>>
    \/ \E rid \in ReadRids, n \in NodeIds :
          readonly_ready_to_read(rid, n) /\ UNCHANGED <<cb_vars, rd_vars, hd_vars>>
    \/ \E rid \in ReadRids : readonly_apply(rid) /\ UNCHANGED <<cb_vars, rd_vars, hd_vars>>
    \/ \E rid \in ReadRids :
          readonly_finish(rid) /\ ForgetSnapshot(rid) /\ UNCHANGED <<cb_vars, hd_vars>>
    \/ \E op \in UpdateOpsReads : update_start(op) /\ UNCHANGED <<cb_vars, rd_vars, hd_vars>>
    \/ \E n \in NodeIds, rid \in UpdateRids :
          /\ global_tail < MaxLogReads
          /\ update_place_ops_in_log_one(n, rid)
          /\ UNCHANGED <<cb_vars, rd_vars, hd_vars>>
    \/ \E rid \in UpdateRids : update_done(rid) /\ UNCHANGED <<cb_vars, rd_vars, hd_vars>>
    \/ \E rid \in UpdateRids : update_finish(rid) /\ UNCHANGED <<cb_vars, rd_vars, hd_vars>>
    \/ \E n \in NodeIds : exec_trivial_start(n) /\ UNCHANGED <<cb_vars, rd_vars, hd_vars>>
    \/ \E n \in NodeIds : exec_load_local_version(n) /\ UNCHANGED <<cb_vars, rd_vars, hd_vars>>
    \/ \E n \in NodeIds : exec_load_global_head(n) /\ UNCHANGED <<cb_vars, rd_vars, hd_vars>>
    \/ \E n \in NodeIds : exec_dispatch_local(n) /\ UNCHANGED <<cb_vars, rd_vars, hd_vars>>
    \/ \E n \in NodeIds : exec_dispatch_remote(n) /\ UNCHANGED <<cb_vars, rd_vars, hd_vars>>
    \/ \E n \in NodeIds : exec_update_version_upper_bound(n) /\ UNCHANGED <<cb_vars, rd_vars, hd_vars>>
    \/ \E n \in NodeIds : exec_finish(n) /\ UNCHANGED <<cb_vars, rd_vars, hd_vars>>

SpecRead == Init /\ [][NextRead]_vars

\* ------------------------------------------------------------------------
\* Claims
\* ------------------------------------------------------------------------

\* the least local head over all replicas
MinLocalHead == CHOOSE m \in {local_heads[n] : n \in NodeIds} : \A n \in NodeIds : m <= local_heads[n]

\* C1 (head bound): in every reachable state of the cyclic buffer the head is
\* at or below the local head of every replica.
C1_HeadBound == \A n \in NodeIds : head <= local_heads[n]

\* C2 (tail bound): in every reachable state every replica's local head is at
\* or below the tail, and the tail is at most one buffer_size ahead of it.
C2_TailBound ==
    \A n \in NodeIds : local_heads[n] <= tail /\ tail <= local_heads[n] + BufferSize

\* C3 (reader guard stability): while a replica holds Guard{start, end, cur, val}
\* the entry at cur is in contents, equals val, and the alive bit of its slot
\* keeps the alive polarity for cur.
C3_GuardStable ==
    \A n \in NodeIds :
        combiner_state[n].kind = "Guard" =>
            LET c == combiner_state[n] IN
            /\ c.cur \in DOMAIN contents
            /\ contents[c.cur] = c.val
            /\ entry_is_alive(alive_bits, c.cur, BufferSize)

\* C4 (parity liveness): for every logical index L within one buffer_size below
\* the tail, contents has an entry at L iff the slot is alive for L or L is
\* below the least local head; and contents has no entry at or above the tail.
C4_ParityLiveness ==
    /\ \A L \in (tail - BufferSize) .. (tail - 1) :
          (L \in DOMAIN contents) <=>
              (entry_is_alive(alive_bits, L, BufferSize) \/ L < MinLocalHead)
    /\ \A L \in DOMAIN contents : L < tail

\* C5 (no overlap): the half-open write ranges [cur_idx, tail) of any two
\* distinct replicas that are both Appending are disjoint.
C5_NoOverlap ==
    \A i \in NodeIds, j \in NodeIds :
        (i # j /\ combiner_state[i].kind = "Appending" /\ combiner_state[j].kind = "Appending") =>
            ~ \E L \in LogIdxs :
                /\ combiner_state[i].cur_idx <= L /\ L < combiner_state[i].tail
                /\ combiner_state[j].cur_idx <= L /\ L < combiner_state[j].tail

\* two replicas are Appending at once, each with a part of its range left to write
C5_Witness ==
    \E i \in NodeIds, j \in NodeIds :
        /\ i # j
        /\ combiner_state[i].kind = "Appending" /\ combiner_state[j].kind = "Appending"
        /\ combiner_state[i].cur_idx < combiner_state[i].tail
        /\ combiner_state[j].cur_idx < combiner_state[j].tail

\* a step of append_flip_bit by replica n: it stays Appending and its cur_idx moves by one
IsAppendStep(n) ==
    /\ combiner_state[n].kind = "Appending"
    /\ combiner_state'[n].kind = "Appending"
    /\ combiner_state'[n].cur_idx = combiner_state[n].cur_idx + 1

\* C6 (exclusive single write): every append_flip_bit writes a logical index
\* that has not been written before, that has no entry in contents, and that
\* lies in a range reserved by the finish_advance_tail of the writing replica.
C6_ExclusiveSingleWrite ==
    [][\A n \in NodeIds :
          IsAppendStep(n) =>
              LET L == combiner_state[n].cur_idx IN
              /\ L \notin written
              /\ L \notin DOMAIN contents
              /\ reserved_by[L] = n]_vars

\* the log indices in [lo, hi) whose entry was placed by node n, in ascending order
LocalEntries(n, lo, hi) ==
    LET IsLocal(i) == i \in DOMAIN log /\ log[i].node_id = n
    IN  SelectSeq([k \in 1 .. (hi - lo) |-> lo + k - 1], IsLocal)

\* C7 (queue match): for every combiner in Loop{queued_ops, lversion, idx,
\* global_tail} on node n, the node-n entries of the log in [lversion,
\* global_tail) are, in order and one to one, the requests queued_ops[idx..]:
\* the k-th request is Placed at the index of the k-th entry, none is left over.
C7_QueueMatch ==
    \A n \in NodeIds :
        combiner[n].kind = "Loop" =>
            LET c == combiner[n]
                locals == LocalEntries(n, c.lversion, c.global_tail)
            IN  /\ Len(locals) = Len(c.queued_ops) - c.idx
                /\ \A k \in 1 .. Len(locals) :
                      LET rid == c.queued_ops[c.idx + k] IN
                      /\ rid \in DOMAIN local_updates
                      /\ local_updates[rid].kind = "Placed"
                      /\ local_updates[rid].idx = locals[k]

\* a combiner is mid-Loop: it has applied one of its requests, another one is
\* still ahead of it, and a remote entry lies in the range it replays
C7_Witness ==
    \E n \in NodeIds :
        /\ combiner[n].kind = "Loop"
        /\ combiner[n].idx >= 1
        /\ combiner[n].idx < Len(combiner[n].queued_ops)
        /\ \E i \in local_versions[n] .. (combiner[n].global_tail - 1) : log[i].node_id # n

\* C8 (dispatch-local safety): if the combiner of node n is in Loop with
\* lversion < global_tail and the log entry at lversion was placed by n, then
\* idx is inside queued_ops and the request queued_ops[idx] is in local_updates
\* in state Placed{op, idx: lversion} with the op of that log entry.
C8_DispatchLocalSafe ==
    \A n \in NodeIds :
        LET c == combiner[n] IN
        (/\ c.kind = "Loop"
         /\ c.lversion < c.global_tail
         /\ c.lversion \in DOMAIN log
         /\ log[c.lversion].node_id = n) =>
            /\ c.idx < Len(c.queued_ops)
            /\ c.queued_ops[c.idx + 1] \in DOMAIN local_updates
            /\ local_updates[c.queued_ops[c.idx + 1]] = UPlaced(log[c.lversion].op, c.lversion)

\* exec_dispatch_local is enabled for the second request of a combiner's queue
C8_Witness ==
    \E n \in NodeIds :
        /\ combiner[n].kind = "Loop"
        /\ combiner[n].lversion < combiner[n].global_tail
        /\ log[combiner[n].lversion].node_id = n
        /\ combiner[n].idx >= 1

\* C9 (flush safety): if the combiner of node n is in Loop with lversion ==
\* global_tail, then idx == |queued_ops|.
C9_FlushSafe ==
    \A n \in NodeIds :
        (combiner[n].kind = "Loop" /\ combiner[n].lversion = combiner[n].global_tail) =>
            combiner[n].idx = Len(combiner[n].queued_ops)

\* a combiner that replayed local and remote entries is about to flush
C9_Witness ==
    \E n \in NodeIds :
        /\ combiner[n].kind = "Loop"
        /\ combiner[n].lversion = combiner[n].global_tail
        /\ Len(combiner[n].queued_ops) >= 1
        /\ combiner[n].lversion - local_versions[n] > Len(combiner[n].queued_ops)

\* the state reached from NRState::init() by the updates log[0] .. log[k-1], in order
LogPrefixState(k) == [i \in 1 .. k |-> log[i - 1].op]

\* C10 (replica state is a log prefix): for every replica n, replicas[n] is the
\* state obtained by applying the ops of log[0 .. k) in index order to the
\* initial state, where k = current_local_version(n).
C10_ReplicaIsLogPrefix ==
    \A n \in NodeIds :
        LET k == current_local_version(n) IN
        /\ \A i \in 0 .. (k - 1) : i \in DOMAIN log
        /\ replicas[n] = LogPrefixState(k)

\* a replica has applied two entries with different ops placed by different
\* nodes while the other replica lags behind
C10_Witness ==
    \E n \in NodeIds, m \in NodeIds :
        /\ current_local_version(n) >= 2
        /\ current_local_version(m) < current_local_version(n)
        /\ log[0].op # log[1].op
        /\ log[0].node_id # log[1].node_id

\* C11 (convergence, as stated): in every reachable state any two replicas
\* with equal local_versions hold identical replica states, whatever their
\* combiner states, one of them being mid-Loop included.
C11_Convergence ==
    \A m \in NodeIds, n \in NodeIds :
        local_versions[m] = local_versions[n] => replicas[m] = replicas[n]

\* C11 (convergence, amended): in every reachable state any two replicas with
\* equal current_local_version (lversion mid-Loop, the global_tail snapshot in
\* UpdatedVersion, local_versions otherwise) hold identical replica states.
C11_ConvergenceCurrent ==
    \A m \in NodeIds, n \in NodeIds :
        current_local_version(m) = current_local_version(n) => replicas[m] = replicas[n]

\* two replicas have applied the same non-empty prefix, one of them mid-Loop
\* with its local_versions entry still behind
C11_Witness ==
    \E m \in NodeIds, n \in NodeIds :
        /\ m # n
        /\ combiner[m].kind = "Loop"
        /\ combiner[n].kind = "Ready"
        /\ current_local_version(m) = current_local_version(n)
        /\ current_local_version(m) >= 2
        /\ local_versions[m] < local_versions[n]

\* the return value of the update at log index idx: update(log[idx].op) on the
\* state reached from the initial state by log[0 .. idx)
RetAtIndex(idx) == NRState_update(LogPrefixState(idx), log[idx].op).ret

\* every request in Applied or Done carries the return value of its log index
C12_RetOfPrefix ==
    \A rid \in DOMAIN local_updates :
        local_updates[rid].kind \in {"Applied", "Done"} =>
            /\ \A i \in 0 .. local_updates[rid].idx : i \in DOMAIN log
            /\ local_updates[rid].ret = RetAtIndex(local_updates[rid].idx)

\* a request keeps, from its submission to Done, the op it was submitted with
\* and the index it was placed at
C12_RequestStep ==
    \A rid \in DOMAIN local_updates' :
        LET post == local_updates'[rid] IN
        IF rid \notin DOMAIN local_updates
        THEN post.kind = "Init"
        ELSE LET pre == local_updates[rid] IN
             \/ post = pre
             \/ /\ pre.kind = "Init" /\ post.kind = "Placed"
                /\ post.op = pre.op
                /\ post.idx = global_tail
                /\ post.idx \notin DOMAIN log
                /\ log'[post.idx].op = pre.op
             \/ /\ pre.kind = "Placed" /\ post.kind = "Applied"
                /\ post.idx = pre.idx
                /\ log[pre.idx].op = pre.op
             \/ /\ pre.kind = "Applied" /\ post.kind = "Done"
                /\ post.idx = pre.idx
                /\ post.ret = pre.ret

\* C12 (update return value): whenever a request is in Applied{ret, idx} or
\* Done{ret, idx}, ret is the return value of update(log[idx].op) on the state
\* obtained by applying log[0 .. idx) in order to the initial state; log[idx].op
\* is the op the request was submitted with and idx is the index at which
\* update_place_ops_in_log_one placed it (every step of a request keeps both).
C12_UpdateReturn == [](C12_RetOfPrefix) /\ [][C12_RequestStep]_vars

\* a request is Done with the return value of the second log entry, computed on
\* a state that holds the first entry, placed by the other node
C12_Witness ==
    \E rid \in DOMAIN local_updates :
        /\ local_updates[rid].kind = "Done"
        /\ local_updates[rid].idx = 1
        /\ log[0].node_id # log[1].node_id
        /\ log[0].op # log[1].op
        /\ local_updates[rid].ret = NRState_update(<<log[0].op>>, log[1].op).ret

\* the replica state a Done read computed its return value on
ObservedState(r) == r.ret[2]

\* a Done read returned read(op) on a state that is a prefix of the log
ReadOfPrefix(r) ==
    /\ r.ret = NRState_read(ObservedState(r), r.op)
    /\ Len(ObservedState(r)) <= global_tail
    /\ ObservedState(r) = LogPrefixState(Len(ObservedState(r)))

\* the state a Done read observed includes the effect of log[idx]
Includes(r, idx) ==
    /\ idx < Len(ObservedState(r))
    /\ ObservedState(r)[idx + 1] = log[idx].op

\* C13 (linearizable reads): if an update request is in Done{ret, idx} at the
\* moment a read takes its snapshot v, then idx < v, and when the read reaches
\* Done{op, ret, n, v} its ret is read(op) on a log-prefix state of length at
\* least v, which includes the effect of log[idx].
C13_LinearizableReads ==
    \A rid \in DOMAIN local_reads :
        LET r == local_reads[rid] IN
        /\ r.kind \in {"VersionUpperBound", "ReadyToRead", "Done"} =>
              \A idx \in snap_done[rid] : idx < r.version_upper_bound
        /\ r.kind = "Done" =>
              /\ ReadOfPrefix(r)
              /\ r.version_upper_bound <= Len(ObservedState(r))
              /\ \A idx \in snap_done[rid] : Includes(r, idx)

\* a read is Done on a replica other than the one that placed an update that
\* was Done when the read took its snapshot
C13_Witness ==
    \E rid \in DOMAIN local_reads :
        /\ local_reads[rid].kind = "Done"
        /\ \E idx \in snap_done[rid] : log[idx].node_id # local_reads[rid].node_id

\* the read request rid performs its read in this step (readonly_apply)
IsReadApplyStep(rid) ==
    /\ rid \in DOMAIN local_reads
    /\ local_reads[rid].kind = "ReadyToRead"
    /\ rid \in DOMAIN local_reads'
    /\ local_reads'[rid].kind = "Done"

\* the read request rid takes its snapshot in this step (readonly_read_ctail)
IsSnapshotStep(rid) ==
    /\ rid \in DOMAIN local_reads
    /\ local_reads[rid].kind = "Init"
    /\ rid \in DOMAIN local_reads'
    /\ local_reads'[rid].kind = "VersionUpperBound"

\* C14 (update causality, as stated): once an update request has reached
\* Done{ret, idx}, every read that reaches Done afterwards, on any replica and
\* whatever the moment its snapshot was taken, returns a value computed from a
\* replica state that includes the effect of log[idx].
C14_UpdateCausality ==
    [][\A rid \in ReadRids :
          IsReadApplyStep(rid) =>
              \A idx \in UpdateIdxs("Done") : Includes(local_reads'[rid], idx)]_vars

\* C14 (update causality, amended): once an update request has reached
\* Done{ret, idx}, idx is below version_upper_bound, so every read that takes
\* its snapshot afterwards records a horizon v > idx; and every read performs
\* its read on a replica that has applied at least log[0 .. v).
C14_UpdateCausalityAfterSnapshot ==
    [][\A rid \in ReadRids :
          /\ IsSnapshotStep(rid) =>
                \A idx \in UpdateIdxs("Done") : idx < local_reads'[rid].version_upper_bound
          /\ IsReadApplyStep(rid) =>
                /\ ReadOfPrefix(local_reads'[rid])
                /\ ObservedState(local_reads'[rid]) = replicas[local_reads[rid].node_id]
                /\ \A idx \in 0 .. (local_reads[rid].version_upper_bound - 1) :
                      Includes(local_reads'[rid], idx)]_vars

\* a read took its snapshot before an update was Done and has completed, after
\* the update was Done, on a replica that has not applied the update
C14_Witness ==
    \E rid \in DOMAIN local_reads :
        /\ local_reads[rid].kind = "Done"
        /\ \E idx \in UpdateIdxs("Done") :
              /\ idx \notin snap_done[rid]
              /\ local_reads[rid].version_upper_bound <= idx
              /\ ~Includes(local_reads[rid], idx)

\* C15 (reads see applied updates, as stated): if at the moment a read takes
\* its snapshot some update request is in Applied{ret, idx}, not yet Done, the
\* state the read observes at readonly_apply includes the effect of log[idx].
C15_ReadsSeeApplied ==
    \A rid \in DOMAIN local_reads :
        local_reads[rid].kind = "Done" =>
            \A idx \in snap_applied[rid] : Includes(local_reads[rid], idx)

\* C15 (reads see applied updates, amended): if at the moment a read takes its
\* snapshot v some update request is in Applied{ret, idx} with idx < v (the
\* combiner that applied it has published its version upper bound), the state
\* the read observes at readonly_apply includes the effect of log[idx].
C15_ReadsSeePublished ==
    \A rid \in DOMAIN local_reads :
        local_reads[rid].kind = "Done" =>
            \A idx \in snap_applied[rid] :
                idx < local_reads[rid].version_upper_bound =>
                    Includes(local_reads[rid], idx)

\* a read is Done on the other replica; at its snapshot an update was Applied
\* and already below the version upper bound
C15_Witness ==
    \E rid \in DOMAIN local_reads :
        /\ local_reads[rid].kind = "Done"
        /\ \E idx \in snap_applied[rid] :
              /\ idx < local_reads[rid].version_upper_bound
              /\ log[idx].node_id # local_reads[rid].node_id

\* every read that has chosen its replica n is at a horizon v at or below the
\* version upper bound and the local version of n
C16_HorizonBound ==
    \A rid \in DOMAIN local_reads :
        local_reads[rid].kind \in {"ReadyToRead", "Done"} =>
            /\ local_reads[rid].version_upper_bound <= version_upper_bound
            /\ local_reads[rid].version_upper_bound <= local_versions[local_reads[rid].node_id]

\* a read moves from VersionUpperBound{op, v} to ReadyToRead on replica n only
\* when local_versions[n] >= v, keeping op and v
C16_ReadyStep ==
    \A rid \in DOMAIN local_reads :
        (/\ local_reads[rid].kind = "VersionUpperBound"
         /\ rid \in DOMAIN local_reads'
         /\ local_reads'[rid] # local_reads[rid]) =>
            /\ local_reads'[rid].kind = "ReadyToRead"
            /\ local_reads'[rid].op = local_reads[rid].op
            /\ local_reads'[rid].version_upper_bound = local_reads[rid].version_upper_bound
            /\ local_versions[local_reads'[rid].node_id] >= local_reads[rid].version_upper_bound

\* C16 (read horizon): in every reachable state every read in ReadyToRead{op,
\* n, v} or Done{op, ret, n, v} has v <= version_upper_bound and v <=
\* local_versions[n]; a read in VersionUpperBound{op, v} does not move to
\* ReadyToRead on a replica n while local_versions[n] < v.
C16_ReadHorizon == [](C16_HorizonBound) /\ [][C16_ReadyStep]_vars

\* a read at a positive horizon waited on a replica that was behind the
\* horizon and is now Done on the other one, which has moved further since
C16_Witness ==
    \E rid \in DOMAIN local_reads, m \in NodeIds :
        /\ local_reads[rid].kind = "Done"
        /\ local_reads[rid].version_upper_bound >= 1
        /\ local_versions[m] < local_reads[rid].version_upper_bound
        /\ local_versions[local_reads[rid].node_id] > local_reads[rid].version_upper_bound

\* C17 (reads do not interleave with applies): a read request moves from
\* ReadyToRead{op, n, v} to Done only in a state where combiner[n] is Ready;
\* its ret is read(op) on the replicas[n] of that same state, and the step
\* changes neither replicas, the log, local_versions, version_upper_bound nor
\* any combiner state.
C17_ReadNoInterleave ==
    [][\A rid \in ReadRids :
          IsReadApplyStep(rid) =>
              LET r == local_reads[rid] IN
              /\ combiner[r.node_id] = Ready
              /\ local_reads'[rid] =
                    RDone(r.op, NRState_read(replicas[r.node_id], r.op), r.node_id,
                          r.version_upper_bound)
              /\ UNCHANGED <<replicas, log, global_tail, local_versions,
                             version_upper_bound, combiner, local_updates>>]_vars

\* a read is Done on a replica that has applied an entry, while the combiner
\* of the other replica is in the middle of its replay loop
C17_Witness ==
    \E rid \in DOMAIN local_reads, m \in NodeIds :
        /\ local_reads[rid].kind = "Done"
        /\ Len(ObservedState(local_reads[rid])) >= 1
        /\ combiner[local_reads[rid].node_id] = Ready
        /\ combiner[m].kind = "Loop"
        /\ combiner[m].lversion < combiner[m].global_tail

\* version_upper_bound is written by a combiner leaving the Loop only, which
\* raises it to the larger of its old value and the combiner's snapshot
C18_BoundStep ==
    /\ version_upper_bound' >= version_upper_bound
    /\ version_upper_bound' # version_upper_bound =>
          \E n \in NodeIds :
              /\ combiner[n].kind = "Loop"
              /\ combiner'[n].kind = "UpdatedVersion"
              /\ version_upper_bound' = combiner[n].global_tail

\* a snapshot is not below any snapshot taken before it
C18_SnapshotStep ==
    \A rid \in ReadRids :
        IsSnapshotStep(rid) =>
            /\ local_reads'[rid].version_upper_bound >= last_snapshots.cur
            /\ \A other \in DOMAIN local_reads :
                  local_reads[other].kind \in {"VersionUpperBound", "ReadyToRead", "Done"} =>
                      local_reads[other].version_upper_bound <=
                          local_reads'[rid].version_upper_bound

\* C18 (version upper bound monotone): along every execution
\* version_upper_bound never decreases; only exec_update_version_upper_bound
\* writes it, setting it to max(old, global_tail snapshot).  Consequently, if
\* one read takes its snapshot v1 before another takes its snapshot v2, then
\* v1 <= v2.
C18_VubMonotone ==
    [](last_snapshots.prev <= last_snapshots.cur) /\ [][C18_BoundStep /\ C18_SnapshotStep]_vars

\* two reads took their snapshots one after the other, at horizons 1 and 2
C18_Witness ==
    /\ last_snapshots.prev = 1
    /\ last_snapshots.cur = 2
    /\ \E rid \in DOMAIN local_reads :
          /\ local_reads[rid].kind = "VersionUpperBound"
          /\ local_reads[rid].version_upper_bound = 2

\* C19 (version upper bound in range): in every reachable state of the
\* unbounded log version_upper_bound <= global_tail.
C19_VubBelowTail == version_upper_bound <= global_tail

\* the version upper bound has been raised twice and a further entry has been
\* appended beyond it
C19_Witness ==
    /\ version_upper_bound = 2
    /\ global_tail = 3
    /\ \E n \in NodeIds : combiner[n].kind = "UpdatedVersion" /\ combiner[n].global_tail = 2

\* C20 (the version upper bound is witnessed by a replica): in every reachable
\* state at least one replica n has current_local_version(n) >=
\* version_upper_bound (lversion for a combiner in Loop, the global_tail
\* snapshot for UpdatedVersion, local_versions[n] otherwise).
C20_VubWitnessed ==
    \E n \in NodeIds : current_local_version(n) >= version_upper_bound

\* exactly one replica has reached a version upper bound of 2 while the log
\* has grown beyond it
C20_Witness ==
    /\ version_upper_bound = 2
    /\ global_tail > version_upper_bound
    /\ \E n \in NodeIds :
          /\ current_local_version(n) = version_upper_bound
          /\ \A m \in NodeIds \ {n} : current_local_version(m) < version_upper_bound

\* C21 (monotone cursors): along every execution tail (cyclic buffer) and
\* global_tail (unbounded log) never decrease, and for every replica n neither
\* local_heads[n] nor local_versions[n] ever decreases.
C21_MonotoneCursors ==
    [][/\ tail' >= tail
       /\ global_tail' >= global_tail
       /\ \A n \in NodeIds :
             /\ local_heads'[n] >= local_heads[n]
             /\ local_versions'[n] >= local_versions[n]]_vars

\* the tail has been advanced, a replica has moved its local head up to it and
\* the head has been advanced behind them
C21_Witness ==
    \E n \in NodeIds :
        /\ tail >= 3
        /\ local_heads[n] = tail
        /\ head >= 1
        /\ head < tail

\* finish_advance_head installs the minimum its scan computed, whatever the
\* head is at that moment
C22_InstallStep ==
    head' # head =>
        \E n \in NodeIds :
            /\ combiner_state[n].kind = "AdvancingHead"
            /\ combiner_state[n].idx = NumReplicas
            /\ combiner_state'[n] = Idle
            /\ head' = combiner_state[n].min_head

\* C22 (head is not monotone): the head is at every moment the min_head of the
\* scan of the latest finish_advance_head, installed without comparing it with
\* the head before, so that of two replicas whose AdvancingHead cycles overlap
\* the later one to finish may install a head strictly smaller than the head
\* in the state before it (the state C22_Witness, which is reachable).
C22_HeadNotMonotone == [](head = last_install.to) /\ [][C22_InstallStep]_vars

\* a finish_advance_head whose cycle overlapped another replica's has just
\* installed a head strictly smaller than the head before it; both values are
\* at or below every local head
C22_Witness ==
    /\ last_install.raced
    /\ head < last_install.from
    /\ \A n \in NodeIds : last_install.from <= local_heads[n]

\* the log has an entry at exactly the indices 0 <= L < global_tail
C23_LogComplete == DOMAIN log = 0 .. (global_tail - 1)

\* an entry of the log keeps its op and node_id; a step adds at most the entry
\* at the old global_tail, written by update_place_ops_in_log_one for a request
\* in Init
C23_LogStep ==
    /\ \A L \in DOMAIN log : L \in DOMAIN log' /\ log'[L] = log[L]
    /\ \A L \in DOMAIN log' \ DOMAIN log :
          /\ L = global_tail
          /\ \E n \in NodeIds, rid \in DOMAIN local_updates :
                /\ combiner[n].kind = "Placed"
                /\ local_updates[rid].kind = "Init"
                /\ log'[L] = LogEntry(local_updates[rid].op, n)

\* C23 (append-only log): in every reachable state the domain of log is
\* exactly the indices 0 <= L < global_tail, and once log[L] has been written
\* by update_place_ops_in_log_one its op and node_id never change or disappear.
C23_AppendOnlyLog == [](C23_LogComplete) /\ [][C23_LogStep]_vars

\* the log holds three entries placed by both nodes; the first one has been
\* applied and its request retired
C23_Witness ==
    /\ global_tail = 3
    /\ log[0].node_id # log[2].node_id
    /\ \A rid \in DOMAIN local_updates :
          local_updates[rid].kind = "Init" \/ local_updates[rid].idx # 0
    /\ \E n \in NodeIds : current_local_version(n) >= 1

\* every request in Done is below the version upper bound, at an index of the log
C24_DoneBelowBound ==
    \A rid \in DOMAIN local_updates :
        local_updates[rid].kind = "Done" =>
            /\ local_updates[rid].idx < version_upper_bound
            /\ local_updates[rid].idx \in DOMAIN log

\* a request becomes Done from Applied only, below the version upper bound of
\* the state it leaves, keeping ret and idx
C24_DoneStep ==
    \A rid \in DOMAIN local_updates' :
        (/\ local_updates'[rid].kind = "Done"
         /\ ~(rid \in DOMAIN local_updates /\ local_updates[rid].kind = "Done")) =>
            /\ rid \in DOMAIN local_updates
            /\ local_updates[rid].kind = "Applied"
            /\ local_updates[rid].idx < version_upper_bound
            /\ local_updates'[rid] = UDone(local_updates[rid].ret, local_updates[rid].idx)

\* C24 (Done publication): an update request moves Applied{ret, idx} ->
\* Done{ret, idx} only in a state where idx < version_upper_bound, with ret and
\* idx unchanged; hence in every reachable state every request in Done{ret,
\* idx} has idx < version_upper_bound and log[idx] present.
C24_DonePublication == [](C24_DoneBelowBound) /\ [][C24_DoneStep]_vars

\* a request is Done while the replica that placed and applied its entry is
\* still in the Loop and has not published a local version past it: the other
\* replica raised the version upper bound
C24_Witness ==
    \E rid \in DOMAIN local_updates :
        LET n == log[local_updates[rid].idx].node_id IN
        /\ local_updates[rid].kind = "Done"
        /\ local_versions[n] <= local_updates[rid].idx
        /\ combiner[n].kind = "Loop"

\* the position of a request state in its variant chain
UpdateStage(u) ==
    CASE u.kind = "Init" -> 0
      [] u.kind = "Placed" -> 1
      [] u.kind = "Applied" -> 2
      [] u.kind = "Done" -> 3

ReadStage(r) ==
    CASE r.kind = "Init" -> 0
      [] r.kind = "VersionUpperBound" -> 1
      [] r.kind = "ReadyToRead" -> 2
      [] r.kind = "Done" -> 3

\* a request enters in Init, stays where it is or moves one stage forward, and
\* leaves from Done only
C25_UpdateStep ==
    /\ \A rid \in DOMAIN local_updates' \ DOMAIN local_updates :
          local_updates'[rid].kind = "Init"
    /\ \A rid \in DOMAIN local_updates \ DOMAIN local_updates' :
          local_updates[rid].kind = "Done"
    /\ \A rid \in DOMAIN local_updates \cap DOMAIN local_updates' :
          \/ local_updates'[rid] = local_updates[rid]
          \/ UpdateStage(local_updates'[rid]) = UpdateStage(local_updates[rid]) + 1

C25_ReadStep ==
    /\ \A rid \in DOMAIN local_reads' \ DOMAIN local_reads :
          local_reads'[rid].kind = "Init"
    /\ \A rid \in DOMAIN local_reads \ DOMAIN local_reads' :
          local_reads[rid].kind = "Done"
    /\ \A rid \in DOMAIN local_reads \cap DOMAIN local_reads' :
          \/ local_reads'[rid] = local_reads[rid]
          \/ ReadStage(local_reads'[rid]) = ReadStage(local_reads[rid]) + 1

\* C25 (request lifecycle): every update request only ever moves Init ->
\* Placed -> Applied -> Done and every read request only Init ->
\* VersionUpperBound -> ReadyToRead -> Done, never backwards and never skipping
\* a stage; a request id is removed from local_updates or local_reads only
\* while it is in Done.
C25_RequestLifecycle == [][C25_UpdateStep /\ C25_ReadStep]_vars

\* an update and a read have both run through their whole chain and the
\* update's request id is in use again for a new request
C25_Witness ==
    /\ \E rid \in DOMAIN local_reads : local_reads[rid].kind = "Done"
    /\ \E rid \in DOMAIN local_updates : local_updates[rid].kind = "Done"
    /\ \E rid \in DOMAIN local_updates : local_updates[rid].kind = "Init"
    /\ global_tail = 2
    /\ \A rid \in DOMAIN local_updates :
          local_updates[rid].kind = "Init" \/ local_updates[rid].idx = 1

\* C26 (replica convergence): under weak fairness of every replica's combiner
\* transitions, for every log index L that has been appended and every replica
\* n, eventually local_versions[n] > L.
C26_ReplicaConvergence ==
    \A L \in 0 .. (MaxLogLive - 1), n \in NodeIds :
        (L < global_tail) ~> (local_versions[n] > L)

\* both replicas have published a local version past the last entry of a log
\* that holds entries of both
C26_Witness ==
    /\ global_tail = MaxLogLive
    /\ log[0].node_id # log[1].node_id
    /\ \A n \in NodeIds : local_versions[n] = global_tail

\* the request rid is in the given stage at log index idx
UpdateAt(rid, kind, idx) ==
    /\ rid \in DOMAIN local_updates
    /\ local_updates[rid].kind = kind
    /\ local_updates[rid].idx = idx

\* a request in Placed or Applied stays in the system, at its index, and does
\* not go back to Init
C27_NoCancelStep ==
    \A rid \in DOMAIN local_updates :
        local_updates[rid].kind \in {"Placed", "Applied"} =>
            /\ rid \in DOMAIN local_updates'
            /\ local_updates'[rid].kind \in {"Placed", "Applied", "Done"}
            /\ local_updates'[rid].idx = local_updates[rid].idx

\* C27 (update completion): under weak fairness of the combiner transitions of
\* the placing replica (replica 0 here) and of update_done, every update
\* request that has reached Placed{op, idx} eventually reaches Done{ret, idx};
\* no transition takes a Placed or Applied request back to Init or removes it.
C27_UpdateCompletion ==
    /\ \A rid \in UpdateRids, idx \in 0 .. (MaxLogLive - 1) :
          (UpdateAt(rid, "Placed", idx) /\ log[idx].node_id = 0)
              ~> UpdateAt(rid, "Done", idx)
    /\ [][C27_NoCancelStep]_vars

\* a request placed by replica 0 behind an entry of replica 1 is Done, while
\* replica 1 has never completed a combiner cycle
C27_Witness ==
    \E rid \in UpdateRids :
        /\ UpdateAt(rid, "Done", 1)
        /\ log[1].node_id = 0
        /\ log[0].node_id = 1
        /\ local_versions[1] = 0

\* C28 (reader idempotence, as stated): reader_do_guard(n) followed at once by
\* reader_do_unguard(n) yields a state equal to the state before
\* reader_do_guard.
C28_GuardUnguardIdentity ==
    guard_hist.done => CbFields = guard_hist.before

\* the fields of the cyclic buffer before a guard, with the cursor of the
\* guarding replica moved to the next entry
AfterGuardedRead(h) ==
    LET c == h.before[6][h.node] IN
    <<h.before[1], h.before[2], h.before[3], h.before[4], h.before[5],
      [h.before[6] EXCEPT ![h.node] = Range(c.start, c.end, c.cur + 1)]>>

\* C28 (reader idempotence, amended): reader_do_guard(n) followed at once by
\* reader_do_unguard(n) leaves head, tail, local_heads, contents, alive_bits
\* and the state of every other replica as they were before reader_do_guard,
\* and replica n in Range{start, end, cur + 1}: the cursor has moved past the
\* entry read.
C28_GuardUnguardAdvances ==
    guard_hist.done => CbFields = AfterGuardedRead(guard_hist)

\* a replica has just guarded and released the second entry of its range
\* while the other replica is appending
C28_Witness ==
    /\ guard_hist.done
    /\ guard_hist.before[6][guard_hist.node].cur = 1
    /\ guard_hist.before[6][guard_hist.node].start = 0
    /\ \E m \in NodeIds : combiner_state[m].kind = "Appending"

\* a step that changes local_heads[n] is reader_do_finish(n): n leaves Range
\* for Idle, local_heads[n] becomes the end of its range, and the step touches
\* no other replica
C29_LocalHeadStep ==
    \A n \in NodeIds :
        local_heads'[n] # local_heads[n] =>
            /\ combiner_state[n].kind = "Range"
            /\ combiner_state'[n] = Idle
            /\ local_heads'[n] = combiner_state[n].end
            /\ \A m \in NodeIds \ {n} :
                  combiner_state'[m] = combiner_state[m] /\ local_heads'[m] = local_heads[m]

\* a step that changes local_versions[n] is exec_finish(n): n leaves
\* UpdatedVersion for Ready, local_versions[n] becomes its global_tail
\* snapshot, and the step touches no other replica
C29_LocalVersionStep ==
    \A n \in NodeIds :
        local_versions'[n] # local_versions[n] =>
            /\ combiner[n].kind = "UpdatedVersion"
            /\ combiner'[n] = Ready
            /\ local_versions'[n] = combiner[n].global_tail
            /\ \A m \in NodeIds \ {n} :
                  combiner'[m] = combiner[m] /\ local_versions'[m] = local_versions[m]

\* C29 (single writer of the local cursor): every transition taken on behalf
\* of replica m leaves local_heads[n] (cyclic buffer) and local_versions[n]
\* (unbounded log) unchanged for every n # m; the only transitions that change
\* local_heads[n] / local_versions[n] are reader_do_finish(n) and
\* exec_finish(n).
C29_SingleWriter == [][C29_LocalHeadStep /\ C29_LocalVersionStep]_vars

\* replica 1 has published a local version while replica 0, which is in the
\* middle of its replay loop, has published none
C29_Witness ==
    /\ local_versions[1] >= 2
    /\ local_versions[0] = 0
    /\ combiner[0].kind = "Loop"
    /\ combiner[0].lversion >= 1

\* the request ids in a combiner's queue
QueueRids(n) == {queued_ops(combiner[n])[i] : i \in 1 .. Len(queued_ops(combiner[n]))}

\* C30 (queue uniqueness): in every reachable state the queued_ops of every
\* combiner contains no request id twice, and the queued_ops of the combiners
\* of two distinct replicas share no request id; also after a request id has
\* been retired by update_finish and used again by update_start while some
\* combiner is still in Loop or UpdatedVersion.
C30_QueueUniqueness ==
    /\ \A n \in NodeIds :
          LET q == queued_ops(combiner[n]) IN
          \A i \in 1 .. Len(q), j \in 1 .. Len(q) : i # j => q[i] # q[j]
    /\ \A m \in NodeIds, n \in NodeIds :
          m # n => QueueRids(m) \cap QueueRids(n) = {}

\* the log indices in [lo, hi) whose entry was appended by replica n, ascending
OwnLogIdxs(n, lo, hi) ==
    SelectSeq([k \in 1 .. (IF hi > lo THEN hi - lo ELSE 0) |-> lo + k - 1],
              LAMBDA i : i \in DOMAIN log /\ log[i].node_id = n)

\* replica n has collected requests and not yet started to replay the log
Collecting(n) == combiner[n].kind \in {"Placed", "LoadedLocalVersion"}

\* C31 (Placed invariant): in every reachable state, for every replica n whose
\* combiner is Placed or LoadedLocalVersion, the log entries of n in
\* [local_versions[n], global_tail) correspond in order and one-to-one to the
\* whole of queued_ops, and every request id in queued_ops is in state Placed
\* with idx the index of its matching log entry (and the op of that entry).
C31_PlacedInvariant ==
    \A n \in NodeIds :
        Collecting(n) =>
            LET q    == queued_ops(combiner[n])
                idxs == OwnLogIdxs(n, local_versions[n], global_tail)
            IN  /\ Len(idxs) = Len(q)
                /\ \A k \in 1 .. Len(q) :
                      /\ q[k] \in DOMAIN local_updates
                      /\ local_updates[q[k]].kind = "Placed"
                      /\ local_updates[q[k]].idx = idxs[k]
                      /\ local_updates[q[k]].op = log[idxs[k]].op

\* replica 0 has queued two requests and replica 1 appended an entry between
\* the two
C31_Witness ==
    /\ combiner[0].kind \in {"Placed", "LoadedLocalVersion"}
    /\ Len(queued_ops(combiner[0])) = 2
    /\ \E i \in DOMAIN log : log[i].node_id = 1 /\ i > local_updates[queued_ops(combiner[0])[1]].idx
                              /\ i < local_updates[queued_ops(combiner[0])[2]].idx

\* a step in which replica n leaves Reading::Range for Idle and publishes a
\* new local head is taken with the cursor at the end of the range
C32_FinishStep ==
    \A n \in NodeIds :
        (/\ combiner_state[n].kind = "Range"
         /\ combiner_state'[n] = Idle
         /\ local_heads'[n] # local_heads[n])
        => /\ local_heads'[n] = combiner_state[n].end
           /\ combiner_state[n].cur = combiner_state[n].end

\* C32 (reader finishes only after reading everything): reader_do_finish(n)
\* takes replica n from Range{start, end, cur} to Idle and sets
\* local_heads[n] to end only when cur = end, so local_heads[n] never
\* advances past an index replica n has not held a Guard on.
C32_FinishOnlyAtEnd == [][C32_FinishStep]_vars

\* C33 (reader state validity): in every reachable state a replica n in
\* Starting{start} has start = local_heads[n]; in Range{start, end, cur} it has
\* start = local_heads[n], start <= cur <= end and
\* tail - buffer_size <= end <= tail; in Guard{start, end, cur, val} it has
\* start = local_heads[n], start <= cur < end and
\* tail - buffer_size <= end <= tail (so reader_do_guard is never taken with
\* cur = end).
C33_ReaderStateValid ==
    \A n \in NodeIds :
        LET c == combiner_state[n] IN
        /\ c.kind = "Starting" => c.start = local_heads[n]
        /\ c.kind = "Range" =>
              /\ c.start = local_heads[n]
              /\ c.start <= c.cur /\ c.cur <= c.end
              /\ tail - BufferSize <= c.end /\ c.end <= tail
        /\ c.kind = "Guard" =>
              /\ c.start = local_heads[n]
              /\ c.start <= c.cur /\ c.cur < c.end
              /\ tail - BufferSize <= c.end /\ c.end <= tail

\* a publishing step of replica n is taken inside the reserved range and on a
\* slot whose bit still holds the stale polarity
C34_FlipStep ==
    \A n \in NodeIds :
        (/\ combiner_state[n].kind = "Appending"
         /\ combiner_state'[n].kind = "Appending"
         /\ combiner_state'[n].cur_idx = combiner_state[n].cur_idx + 1)
        => /\ combiner_state[n].cur_idx < combiner_state[n].tail
           /\ ~entry_is_alive(alive_bits, combiner_state[n].cur_idx, BufferSize)

\* an Appending combiner is inside its range, below the global tail, and
\* nothing it still has to write is alive
C34_AppendingValid ==
    \A n \in NodeIds :
        LET c == combiner_state[n] IN
        c.kind = "Appending" =>
            /\ local_heads[n] <= c.cur_idx
            /\ c.cur_idx <= c.tail
            /\ c.tail <= tail
            /\ \A i \in LogIdxs :
                  (c.cur_idx <= i /\ i < c.tail) => ~entry_is_alive(alive_bits, i, BufferSize)

\* C34 (publish precondition): every append_flip_bit(n) is taken from
\* Appending{cur_idx, tail} with cur_idx < tail and with the alive bit of
\* cur_idx holding the stale polarity; in every reachable state an Appending
\* combiner satisfies local_heads[n] <= cur_idx <= tail <= global tail and no
\* logical index in [cur_idx, tail) is alive.
C34_PublishPrecondition == [](C34_AppendingValid) /\ [][C34_FlipStep]_vars

\* the scanned minimum is a lower bound on the local heads already visited
C35_ScanValid ==
    \A n \in NodeIds :
        LET c == combiner_state[n] IN
        c.kind = "AdvancingHead" =>
            /\ c.idx <= NumReplicas
            /\ \A k \in NodeIds : k < c.idx => c.min_head <= local_heads[k]

\* a scan is started at replica 0, whichever replica starts it
C35_ScanStartStep ==
    \A n \in NodeIds :
        (combiner_state[n] = Idle /\ combiner_state'[n].kind = "AdvancingHead")
        => combiner_state'[n] = AdvancingHead(1, local_heads[0])

\* C35 (head scan invariant): in every reachable state a replica in
\* AdvancingHead{idx, min_head} has idx <= num_replicas and
\* min_head <= local_heads[k] for every replica k < idx; the scan starts from
\* local_heads[0] whichever node_id runs init_advance_head, so at
\* finish_advance_head min_head is a lower bound on every local head.
C35_HeadScanInvariant == [](C35_ScanValid) /\ [][C35_ScanStartStep]_vars

\* a step that moves the tail withdraws only indices that hold an entry and
\* that every replica has read
C36_ReclaimStep ==
    \A n \in NodeIds :
        (combiner_state[n].kind = "AdvancingTail" /\ combiner_state'[n].kind = "Appending")
        => \A i \in (tail - BufferSize) .. (tail' - BufferSize - 1) :
              /\ i \in DOMAIN contents
              /\ \A k \in NodeIds : i < local_heads[k]

\* C36 (safe reclamation): whenever finish_advance_tail(n, new_tail) is taken,
\* every logical index i with tail_pre - buffer_size <= i < new_tail -
\* buffer_size that it withdraws has an entry in contents and satisfies
\* i < local_heads[k] for every replica k; no entry is vacated before every
\* replica has read it.
C36_SafeReclamation == [][C36_ReclaimStep]_vars

\* C37: in every reachable state of the unbounded log,
\* local_versions[n] <= version_upper_bound for every replica n.
C37_LocalVersionBelowBound ==
    \A n \in NodeIds : local_versions[n] <= version_upper_bound

\* replica 0 has finished a cycle whose snapshot was below the bound another
\* replica had already raised, and the log has grown past the bound since
C37_Witness ==
    /\ combiner[0] = Ready
    /\ local_versions[0] > 0
    /\ local_versions[0] < version_upper_bound
    /\ local_versions[1] = version_upper_bound
    /\ version_upper_bound < global_tail

\* C38: in every reachable state of the unbounded log, every update request
\* in state Placed{op, idx} or Applied{ret, idx} has log[idx] present and
\* idx < version_upper_bound.
C38_PlacedBelowBound ==
    \A rid \in DOMAIN local_updates :
        local_updates[rid].kind \in {"Placed", "Applied"} =>
            /\ local_updates[rid].idx \in DOMAIN log
            /\ local_updates[rid].idx < version_upper_bound

\* every request id a combiner holds in its queue is a request of the system
C39_QueuedInDom ==
    \A n \in NodeIds : QueueRids(n) \subseteq DOMAIN local_updates

\* a step that retires a request does not retire one a combiner still queues
C39_RetireStep ==
    \A rid \in DOMAIN local_updates :
        rid \notin DOMAIN local_updates' => \A n \in NodeIds : rid \notin QueueRids(n)

\* C39: in every reachable state of the unbounded log, every request id that
\* occurs in the queued_ops of any combiner (Placed, LoadedLocalVersion, Loop
\* or UpdatedVersion) is present in local_updates; update_finish never
\* removes a request id that a combiner still holds in its queued_ops.
C39_QueuedRequestsPresent == [](C39_QueuedInDom) /\ [][C39_RetireStep]_vars

\* a step in which replica n's combiner returns from UpdatedVersion to Ready
FinishStep(n) == combiner[n].kind = "UpdatedVersion" /\ combiner'[n] = Ready

\* C40 (end of a combiner cycle): at the moment replica n's combiner returns
\* to Ready through exec_finish, every update request the combiner placed in
\* this cycle (every request id in its queued_ops) is in UpdateState::Done.
C40_FinishStepAllDone ==
    \A n \in NodeIds :
        FinishStep(n) =>
            \A rid \in QueueRids(n) :
                rid \in DOMAIN local_updates /\ local_updates[rid].kind = "Done"

PlacedThisCycle(n) ==
    {rid \in DOMAIN local_updates :
        /\ local_updates[rid].kind # "Init"
        /\ local_updates[rid].idx \in DOMAIN log
        /\ log[local_updates[rid].idx].node_id = n
        /\ local_versions[n] <= local_updates[rid].idx
        /\ local_updates[rid].idx < combiner[n].global_tail}

\* when the combiner of n returns to Ready its queue covers exactly its entries
\* of the cycle, and every request of the cycle still in the system has been
\* applied and lies below version_upper_bound
C40_FinishStepAllApplied ==
    \A n \in NodeIds :
        FinishStep(n) =>
            /\ Len(queued_ops(combiner[n])) =
                  Len(OwnLogIdxs(n, local_versions[n], combiner[n].global_tail))
            /\ \A rid \in PlacedThisCycle(n) :
                  /\ local_updates[rid].kind \in {"Applied", "Done"}
                  /\ local_updates[rid].idx < version_upper_bound

====
